---- MODULE Spec2Model ----
(***************************************************************************)
(* Model of server/index.js: the campaign ledger (campaigns.json), the     *)
(* bulk send handler with its background send loop, the public/QR          *)
(* campaign handler, the tracking endpoints, and the product scoring,     *)
(* matching and reply functions used by the external chat endpoint, and    *)
(* the clients collection (clients.json) with its two endpoints.           *)
(*                                                                         *)
(* Node runs one handler at a time and a handler keeps the thread until it *)
(* awaits real I/O.  `turn` is the request whose synchronous code (or      *)
(* microtask continuation) is running; 0 means the event loop is free to   *)
(* start another handler or to resume one whose I/O has completed.         *)
(***************************************************************************)
EXTENDS Integers, Sequences, FiniteSets, TLC

VARIABLES
    ledger,     \* contents of campaigns.json: sequence of campaign records
    now,        \* value Date.now() returns
    reqs,       \* per POST /api/campaign/send request: handler locals and position
    turn,       \* request holding the thread, 0 when the event loop is free
    nPublic,    \* number of POST /api/campaign/public requests handled
    events,     \* history: tracking timestamps that were persisted
    message,    \* text handed to the scoring functions
    products,   \* contents of products.json: the catalog, a sequence of products
    answer,     \* what the scoring function called last returned
    clients,    \* contents of clients.json: sequence of client records
    authorization, \* Authorization header of the last /api/clients request
    response    \* response to the last /api/clients request

ledgerVars == <<ledger, now, reqs, turn, nPublic, events>>

scoreVars == <<message, products, answer>>

clientVars == <<clients, authorization, response>>

vars == <<ledger, now, reqs, turn, nPublic, events, message, products, answer,
          clients, authorization, response>>

----------------------------------------------------------------------------
(* Bounds *)

MaxCampaigns == 2  \* campaign requests (bulk and public together)
MaxClock == 2      \* Date.now() ranges over 1..MaxClock
MaxEmails == 2     \* longest recipient list
MaxTrack == 2      \* tracking timestamps persisted in one run

Requests == 1..MaxCampaigns
Clock == 1..MaxClock
Subjects == {"", "Lista"}
\* the email path parameter of tracking requests
Visitors == {"a@x"}

\* pdfUrl of a request body: missing, or an upload.  Every request names its
\* own upload ("/uploads/1.pdf" for the first request, and so on), so that
\* two campaigns never share a pdfUrl by accident.
PdfOf(owner) == "/uploads/" \o ToString(owner) \o ".pdf"
PdfInputs(owner) == {"", PdfOf(owner)}
AllPdfInputs == {""} \cup {PdfOf(o) : o \in 1..(2 * MaxCampaigns)}

\* Recipient lists.  The send loop never looks inside an address (it only
\* pastes it into the message), so one list per length is enough; the list
\* of length 3 or more repeats an address.
Recipient(i) == IF i % 2 = 1 THEN "a@x" ELSE "b@x"
Recipients(n) == [i \in 1..n |-> Recipient(i)]

\* the `emails` field of the request body: an array of recipients, or
\* something that is not an array
NotArray == [isArray |-> FALSE, list |-> <<>>]
EmailInputs == {[isArray |-> TRUE, list |-> Recipients(n)] : n \in 0..MaxEmails}
                   \cup {NotArray}

----------------------------------------------------------------------------
(* Values *)

\* Date.now().toString()
BulkId(t) == ToString(t)

\* "qr-" + Date.now().toString()
PublicId(t) == "qr-" \o ToString(t)

\* new Date().toISOString()
toISOString(t) == "T" \o ToString(t)

AllIds == {BulkId(t) : t \in Clock} \cup {PublicId(t) : t \in Clock}

\* the 1x1 transparent GIF of the open-tracking endpoint
Pixel == [status |-> 200, type |-> "image/gif", body |-> "R0lGODlhAQABAIAAAAAAAP///yH5BAEAAAAALAAAAAABAAEAAAIBRAA7"]

EmptyMap == <<>>

\* The campaign object of POST /api/campaign/send.  `owner` is not a field
\* of the stored object: it names the request that created the record, so
\* that properties can tell records with equal ids apart.
NewCampaign(id, t, subject, pdfUrl, total, owner) ==
    [id |-> id, date |-> toISOString(t), subject |-> subject, pdfUrl |-> pdfUrl,
     total |-> total, sent |-> 0, opens |-> EmptyMap, clicks |-> EmptyMap,
     type |-> "", owner |-> owner]

\* The campaign object of POST /api/campaign/public
NewPublicCampaign(id, t, subject, pdfUrl, owner) ==
    [id |-> id, date |-> toISOString(t), subject |-> subject, pdfUrl |-> pdfUrl,
     total |-> 0, sent |-> 0, opens |-> EmptyMap, clicks |-> EmptyMap,
     type |-> "qr", owner |-> owner]

\* campaigns.unshift(campaign)
Unshift(led, c) == <<c>> \o led

\* campaigns.find(x => x.id === id): index of the first record with this id, 0 if none
Find(led, id) ==
    IF \E i \in 1..Len(led) : led[i].id = id
    THEN CHOOSE i \in 1..Len(led) :
            /\ led[i].id = id
            /\ \A j \in 1..(i - 1) : led[j].id # id
    ELSE 0

\* currentCampaigns.filter(x => x.id !== campaignId)
RemoveById(led, id) == SelectSeq(led, LAMBDA x : x.id # id)

\* c.sent = sentCount, on the record found in the ledger just read
SetSent(led, id, cnt) ==
    LET i == Find(led, id)
    IN  IF i = 0 THEN led ELSE [led EXCEPT ![i].sent = cnt]

Has(map, e) == e \in DOMAIN map

Put(map, e, v) == [x \in (DOMAIN map) \cup {e} |-> IF x = e THEN v ELSE map[x]]

\* if (!c.opens[email]) c.opens[email] = new Date().toISOString()
StampOpen(led, i, email, t) ==
    [led EXCEPT ![i].opens = Put(led[i].opens, email, toISOString(t))]

\* if (!c.clicks[email]) c.clicks[email] = new Date().toISOString()
StampClick(led, i, email, t) ==
    [led EXCEPT ![i].clicks = Put(led[i].clicks, email, toISOString(t))]

----------------------------------------------------------------------------
(* Initial state: empty data directory, no request received *)

IdleReq ==
    [pc |-> "idle", emails |-> <<>>, smtp |-> FALSE, campaignId |-> "",
     idx |-> 1, sentCount |-> 0, attempts |-> <<>>, outcome |-> <<>>, resp |-> <<>>]

CampaignInit ==
    /\ ledger = <<>>
    /\ now = 1
    /\ reqs = [r \in Requests |-> IdleReq]
    /\ turn = 0
    /\ nPublic = 0
    /\ events = {}

NoAnswer == [op |-> "none"]

ScoreIdle ==
    /\ message = <<>>
    /\ products = <<>>
    /\ answer = NoAnswer

NoResponse == [status |-> 0]

ClientsIdle ==
    /\ clients = <<>>
    /\ authorization = <<>>
    /\ response = NoResponse

Init == CampaignInit /\ ScoreIdle /\ ClientsIdle

----------------------------------------------------------------------------
(* POST /api/campaign/send *)

\* campaign requests received so far
Received == Cardinality({r \in Requests : reqs[r].pc # "idle"}) + nPublic

\* requests with an SMTP loop suspended in `await transporter.sendMail`
LoopsRunning == {r \in Requests : reqs[r].pc = "await"}

\* where the handler goes after "Save initial": to the SMTP probe when a
\* host is configured, else (simulated transport) straight to the response
PcAfterSaveNoReply(host) == IF host THEN "verifying" ELSE "loop"

PcAfterSave(host) == IF host THEN "verifying" ELSE "respond"

\* validation, campaign creation and initial save, up to the first await
Submit(r, subject, pdfUrl, body, host) ==
    /\ turn = 0
    /\ reqs[r].pc = "idle"
    /\ \A q \in Requests : q < r => reqs[q].pc # "idle"
    /\ Received < MaxCampaigns
    /\ IF subject = "" \/ pdfUrl = "" \/ ~body.isArray \/ Len(body.list) = 0
       THEN /\ reqs' = [reqs EXCEPT ![r].pc = "rejected",
                                    ![r].resp = <<[status |-> 400, error |-> "missing_fields"]>>]
            /\ UNCHANGED <<ledger, turn>>
       ELSE /\ ledger' = Unshift(ledger,
                           NewCampaign(BulkId(now), now, subject, pdfUrl, Len(body.list), r))
            /\ reqs' = [reqs EXCEPT ![r].pc = PcAfterSave(host),
                                    ![r].emails = body.list,
                                    ![r].smtp = host,
                                    ![r].campaignId = BulkId(now)]
            /\ turn' = IF host THEN 0 ELSE r
    /\ UNCHANGED <<now, nPublic, events>>
    /\ UNCHANGED <<scoreVars, clientVars>>

\* await transporter.verify() resolves
VerifyOk(r) ==
    /\ turn = 0
    /\ reqs[r].pc = "verifying"
    /\ reqs' = [reqs EXCEPT ![r].pc = "respond"]
    /\ turn' = r
    /\ UNCHANGED <<ledger, now, nPublic, events>>
    /\ UNCHANGED <<scoreVars, clientVars>>

RollbackShift(led, id) == Tail(led)

\* the ledger after the catch block of transporter.verify()
Rollback(led, id) == RemoveById(led, id)

\* await transporter.verify() rejects: remove the entry, answer 400
VerifyFail(r) ==
    /\ turn = 0
    /\ reqs[r].pc = "verifying"
    /\ ledger' = Rollback(ledger, reqs[r].campaignId)
    /\ reqs' = [reqs EXCEPT ![r].pc = "aborted",
                            ![r].resp = Append(@, [status |-> 400, error |-> "smtp_error"])]
    /\ UNCHANGED <<now, turn, nPublic, events>>
    /\ UNCHANGED <<scoreVars, clientVars>>

\* res.json({ ok: true, id: campaignId, status: "sending_started" })
Respond(r) ==
    /\ turn = r
    /\ reqs[r].pc = "respond"
    /\ reqs' = [reqs EXCEPT ![r].pc = "loop",
                            ![r].resp = Append(@, [status |-> 200, ok |-> TRUE,
                                                   id |-> reqs[r].campaignId,
                                                   state |-> "sending_started"])]
    /\ UNCHANGED <<ledger, now, turn, nPublic, events>>
    /\ UNCHANGED <<scoreVars, clientVars>>

FinalWriteInMemory(led, id, cnt) ==
    LET i == Find(led, id)
    IN  IF i = 0 THEN led
        ELSE [led EXCEPT ![i].sent = cnt, ![i].opens = EmptyMap, ![i].clicks = EmptyMap]

FinalWriteLosesClicks(led, id, cnt) ==
    LET i == Find(led, id)
    IN  IF i = 0 THEN led ELSE [led EXCEPT ![i].sent = cnt, ![i].clicks = EmptyMap]

\* the ledger after "Update sent count": re-read, find, set sent, write
FinalWrite(led, id, cnt) == SetSent(led, id, cnt)

\* head of the for loop: call sendMail for the next recipient, or leave the
\* loop and update the sent count
LoopStep(r) ==
    /\ turn = r
    /\ reqs[r].pc = "loop"
    /\ IF reqs[r].idx <= Len(reqs[r].emails)
       THEN /\ reqs' = [reqs EXCEPT ![r].pc = "await",
                                    ![r].attempts = Append(@, reqs[r].emails[reqs[r].idx])]
            /\ turn' = IF reqs[r].smtp THEN 0 ELSE r
            /\ UNCHANGED ledger
       ELSE /\ ledger' = FinalWrite(ledger, reqs[r].campaignId, reqs[r].sentCount)
            /\ reqs' = [reqs EXCEPT ![r].pc = "done"]
            /\ turn' = 0
    /\ UNCHANGED <<now, nPublic, events>>
    /\ UNCHANGED <<scoreVars, clientVars>>

\* sentCount after a resolved sendMail
CountSent(n) == n + 1

\* await transporter.sendMail(...) resolves: sentCount++
SendOk(r) ==
    /\ reqs[r].pc = "await"
    /\ turn = IF reqs[r].smtp THEN 0 ELSE r
    /\ reqs' = [reqs EXCEPT ![r].pc = "loop",
                            ![r].sentCount = CountSent(@),
                            ![r].idx = @ + 1,
                            ![r].outcome = Append(@, "ok")]
    /\ turn' = r
    /\ UNCHANGED <<ledger, now, nPublic, events>>
    /\ UNCHANGED <<scoreVars, clientVars>>

AfterFailureRetry(i) == i

\* the loop position after a rejected sendMail (catch: log and go on)
AfterFailure(i) == i + 1

\* await transporter.sendMail(...) rejects; the simulated transport never does
SendFail(r) ==
    /\ reqs[r].pc = "await"
    /\ reqs[r].smtp
    /\ turn = 0
    /\ reqs' = [reqs EXCEPT ![r].pc = "loop",
                            ![r].idx = AfterFailure(@),
                            ![r].outcome = Append(@, "fail")]
    /\ turn' = r
    /\ UNCHANGED <<ledger, now, nPublic, events>>
    /\ UNCHANGED <<scoreVars, clientVars>>

----------------------------------------------------------------------------
(* POST /api/campaign/public, GET /api/public/go/:id *)

PublicOwner(k) == MaxCampaigns + k

\* res.json({ ok: true, id: campaignId, link })
PublicResponse(subject, pdfUrl, t) ==
    IF subject = "" \/ pdfUrl = ""
    THEN [status |-> 400, error |-> "missing_fields"]
    ELSE [status |-> 200, ok |-> TRUE, id |-> PublicId(t),
          link |-> <<"/api/public/go", PublicId(t)>>]

CreatePublic(subject, pdfUrl) ==
    /\ turn = 0
    /\ pdfUrl \in PdfInputs(PublicOwner(nPublic + 1))
    /\ Received < MaxCampaigns
    /\ nPublic' = nPublic + 1
    /\ IF subject = "" \/ pdfUrl = ""
       THEN UNCHANGED ledger
       ELSE ledger' = Unshift(ledger,
                        NewPublicCampaign(PublicId(now), now, subject, pdfUrl,
                                          PublicOwner(nPublic + 1)))
    /\ UNCHANGED <<now, reqs, turn, events>>
    /\ UNCHANGED <<scoreVars, clientVars>>

\* res.redirect("/download.html?cid=...&pdf=...") or 404
GoResponse(led, id) ==
    LET i == Find(led, id)
    IN  IF i # 0
        THEN [status |-> 302, path |-> "/download.html", cid |-> id, pdf |-> led[i].pdfUrl]
        ELSE [status |-> 404, body |-> "Link not found"]

\* the ledger after the go handler: it reads and never writes
GoLedger(led, id) == led

Go(id) ==
    /\ turn = 0
    /\ ledger' = GoLedger(ledger, id)
    /\ UNCHANGED <<now, reqs, turn, nPublic, events>>
    /\ UNCHANGED <<scoreVars, clientVars>>

----------------------------------------------------------------------------
(* GET /api/track/open/:id/:email, GET /api/track/link/:id/:email *)

Event(kind, id, email, t, owner) ==
    [kind |-> kind, id |-> id, email |-> email, ts |-> toISOString(t),
     owner |-> owner, loops |-> LoopsRunning]

RecordOpenOrCreate(led, id, email, t) ==
    LET i == Find(led, id)
    IN  IF i = 0
        THEN Unshift(led, [NewCampaign(id, t, "", "", 0, 0) EXCEPT !.opens = Put(EmptyMap, email, toISOString(t))])
        ELSE IF ~Has(led[i].opens, email) THEN StampOpen(led, i, email, t) ELSE led

\* the ledger after the open handler
RecordOpen(led, id, email, t) ==
    LET i == Find(led, id)
    IN  IF i # 0 /\ ~Has(led[i].opens, email) THEN StampOpen(led, i, email, t) ELSE led

\* the ledger after the click handler
RecordClick(led, id, email, t) ==
    LET i == Find(led, id)
    IN  IF i # 0 /\ ~Has(led[i].clicks, email) THEN StampClick(led, i, email, t) ELSE led

TrackOpen(id, email) ==
    /\ turn = 0
    /\ ledger' = RecordOpen(ledger, id, email, now)
    /\ ledger' # ledger => Cardinality(events) < MaxTrack
    /\ events' = IF ledger' # ledger
                 THEN events \cup {Event("open", id, email, now, ledger[Find(ledger, id)].owner)}
                 ELSE events
    /\ UNCHANGED <<now, reqs, turn, nPublic>>
    /\ UNCHANGED <<scoreVars, clientVars>>

\* res.redirect("/download.html?email=...&cid=...&pdf=...") or 404
ClickResponse(led, id, email) ==
    LET i == Find(led, id)
    IN  IF i # 0
        THEN [status |-> 302, path |-> "/download.html",
              email |-> email, cid |-> id, pdf |-> led[i].pdfUrl]
        ELSE [status |-> 404, body |-> "Campaign not found"]

\* res.writeHead(200, ...); res.end(img), whatever was found
OpenResponse(led, id, email) == Pixel

TrackClick(id, email) ==
    /\ turn = 0
    /\ ledger' = RecordClick(ledger, id, email, now)
    /\ ledger' # ledger => Cardinality(events) < MaxTrack
    /\ events' = IF ledger' # ledger
                 THEN events \cup {Event("click", id, email, now, ledger[Find(ledger, id)].owner)}
                 ELSE events
    /\ UNCHANGED <<now, reqs, turn, nPublic>>
    /\ UNCHANGED <<scoreVars, clientVars>>

----------------------------------------------------------------------------
(* The clock *)

\* Date.now() is read only at the start of a handler, so time passing while
\* a handler holds the thread is the same as time passing just before it.
Tick ==
    /\ turn = 0
    /\ now < MaxClock
    /\ now' = now + 1
    /\ UNCHANGED <<ledger, reqs, turn, nPublic, events>>
    /\ UNCHANGED <<scoreVars, clientVars>>

----------------------------------------------------------------------------

Next ==
    \/ \E r \in Requests, s \in Subjects, e \in EmailInputs, h \in BOOLEAN :
          \E p \in PdfInputs(r) : Submit(r, s, p, e, h)
    \/ \E r \in Requests : VerifyOk(r)
    \/ \E r \in Requests : VerifyFail(r)
    \/ \E r \in Requests : Respond(r)
    \/ \E r \in Requests : LoopStep(r)
    \/ \E r \in Requests : SendOk(r)
    \/ \E r \in Requests : SendFail(r)
    \/ \E s \in Subjects, p \in AllPdfInputs : CreatePublic(s, p)
    \/ \E id \in AllIds : Go(id)
    \/ \E id \in AllIds, e \in Visitors : TrackOpen(id, e)
    \/ \E id \in AllIds, e \in Visitors : TrackClick(id, e)
    \/ Tick

Spec == Init /\ [][Next]_vars

----------------------------------------------------------------------------
(* The scoring functions.  Text is a sequence of characters, so that        *)
(* toLowerCase, split and includes do what they do in the source.           *)

MaxCatalog == 5    \* longest catalog

IsSpace(c) == c \in {" ", "\t", "\n"}

\* String.prototype.toLowerCase, on the characters the model uses
LowerChar(c) ==
    CASE c = "C" -> "c" [] c = "D" -> "d" [] c = "E" -> "e" [] c = "F" -> "f"
      [] c = "L" -> "l" [] c = "O" -> "o" [] c = "P" -> "p" [] c = "T" -> "t"
      [] OTHER -> c

toLowerCase(str) == [i \in 1..Len(str) |-> LowerChar(str[i])]

\* String.prototype.includes
Includes(hay, w) ==
    \E i \in 0..(Len(hay) - Len(w)) : SubSeq(hay, i + 1, i + Len(w)) = w

\* str.split(/\s+/).filter(Boolean): the maximal runs of non-space characters
RECURSIVE SplitFrom(_, _, _)
SplitFrom(str, i, word) ==
    IF i > Len(str)
    THEN IF word = <<>> THEN <<>> ELSE <<word>>
    ELSE IF IsSpace(str[i])
         THEN (IF word = <<>> THEN <<>> ELSE <<word>>) \o SplitFrom(str, i + 1, <<>>)
         ELSE SplitFrom(str, i + 1, Append(word, str[i]))

SplitWords(str) == SplitFrom(str, 1, <<>>)

Sp == <<" ">>

Electricidad == <<"E", "l", "e", "c", "t", "r", "i", "c", "i", "d", "a", "d">>
Plomeria == <<"P", "l", "o", "m", "e", "r", "í", "a">>
Disponible == "Disponible"

\* /lámpara|lampara|iluminación|iluminacion|foco|bombillo/
LightPatterns ==
    { <<"l", "á", "m", "p", "a", "r", "a">>, <<"l", "a", "m", "p", "a", "r", "a">>,
      <<"i", "l", "u", "m", "i", "n", "a", "c", "i", "ó", "n">>,
      <<"i", "l", "u", "m", "i", "n", "a", "c", "i", "o", "n">>,
      <<"f", "o", "c", "o">>, <<"b", "o", "m", "b", "i", "l", "l", "o">> }

\* /tubo|agua|llave|grifo|grifería|griferia|sifón|sifon/
PlumbingPatterns ==
    { <<"t", "u", "b", "o">>, <<"a", "g", "u", "a">>, <<"l", "l", "a", "v", "e">>,
      <<"g", "r", "i", "f", "o">>, <<"g", "r", "i", "f", "e", "r", "í", "a">>,
      <<"g", "r", "i", "f", "e", "r", "i", "a">>, <<"s", "i", "f", "ó", "n">>,
      <<"s", "i", "f", "o", "n">> }

\* regex.test(q) for an alternation of literals
Test(patterns, q) == \E pat \in patterns : Includes(q, pat)

\* p.available: a field that may be absent; when set it holds a string
Absent == [has |-> FALSE, val |-> ""]
Set(v) == [has |-> TRUE, val |-> v]

\* truthiness of p.available
Truthy(a) == a.has /\ a.val # ""

\* p.price: null/absent, a number, or something Number() turns into NaN.
\* Amounts are integers; the source divides by 1000, so scores are kept in
\* thousandths.
NoPrice == [t |-> "null", v |-> 0]
Price(n) == [t |-> "num", v |-> n]
BadPrice == [t |-> "nan", v |-> 0]

EligibleAlways(p) == TRUE

\* the negation of `if (p.available && p.available !== "Disponible") continue`
Eligible(p) == ~(Truthy(p.available) /\ p.available.val # Disponible)

\* `${p.name || ""} ${p.desc || ""} ${p.category || ""} ... ${p.brand || ""}`.toLowerCase()
Hay(p) ==
    toLowerCase(p.name \o Sp \o p.desc \o Sp \o p.category \o Sp \o p.subcategory
                    \o Sp \o p.material \o Sp \o p.brand)

BaseScoreNone(words) == 0

\* if (!words.length) score += 1
BaseScore(words) == IF Len(words) = 0 THEN 1000 ELSE 0

Min(a, b) == IF a < b THEN a ELSE b

\* score += Math.min(val / 1000, 5), when the price is a number
PriceBoost(p) ==
    IF p.price.t # "null" /\ p.price.t # "nan" THEN Min(p.price.v, 5000) ELSE 0

\* the score of one product, in thousandths
Score(q, words, p) ==
    BaseScore(words)
      + 3000 * Cardinality({i \in 1..Len(words) : Includes(Hay(p), words[i])})
      + (IF Test(LightPatterns, q) /\ p.category = Electricidad THEN 4000 ELSE 0)
      + (IF Test(PlumbingPatterns, q) /\ p.category = Plomeria THEN 4000 ELSE 0)
      + PriceBoost(p)

\* if (score > 0) filtered.push({ p, score })
Keep(score) == score > 0

\* the loop over the catalog: filtered, as {p: catalog position, score}
RECURSIVE Filtered(_, _, _, _)
Filtered(q, words, list, i) ==
    IF i > Len(list) THEN <<>>
    ELSE LET score == Score(q, words, list[i])
         IN  (IF Eligible(list[i]) /\ Keep(score)
              THEN <<[p |-> i, score |-> score]>>
              ELSE <<>>)
             \o Filtered(q, words, list, i + 1)

InsertUnstable(sorted, x) ==
    LET k == Cardinality({j \in 1..Len(sorted) : sorted[j].score > x.score})
    IN  SubSeq(sorted, 1, k) \o <<x>> \o SubSeq(sorted, k + 1, Len(sorted))

\* x put behind every element that does not sort after it
InsertStable(sorted, x) ==
    LET k == Cardinality({j \in 1..Len(sorted) : sorted[j].score >= x.score})
    IN  SubSeq(sorted, 1, k) \o <<x>> \o SubSeq(sorted, k + 1, Len(sorted))

\* filtered.sort((a, b) => b.score - a.score): Array.prototype.sort is stable
RECURSIVE SortByScore(_)
SortByScore(f) ==
    IF f = <<>> THEN <<>>
    ELSE InsertStable(SortByScore(SubSeq(f, 1, Len(f) - 1)), f[Len(f)])

TopN == 4

\* filtered.slice(0, 4)
Slice(f) == SubSeq(f, 1, Min(TopN, Len(f)))

\* filtered.sort(...).slice(0, 4): the {p, score} entries behind the result
TopEntries(query, list) ==
    LET q == toLowerCase(query)
    IN  Slice(SortByScore(Filtered(q, SplitWords(q), list, 1)))

\* .map(x => x.p)
RECURSIVE MapP(_, _)
MapP(entries, list) ==
    IF entries = <<>> THEN <<>>
    ELSE <<list[Head(entries).p]>> \o MapP(Tail(entries), list)

\* recommendProductsForQueryText(query, products)
recommendProductsForQueryText(query, list) == MapP(TopEntries(query, list), list)

(* Inputs *)

Product(name, desc, category, price, available) ==
    [name |-> name, desc |-> desc, category |-> category, subcategory |-> <<>>,
     material |-> <<>>, brand |-> <<>>, price |-> price, available |-> available]

Palette ==
    { Product(<<"F", "o", "c", "o">>, <<"l", "e", "d">>, Electricidad, Price(9000), Set(Disponible)),
      Product(<<"T", "u", "b", "o">>, <<>>, Plomeria, Price(5000), Absent),
      Product(<<"F", "o", "c", "o">>, <<>>, Electricidad, NoPrice, Set("Agotado")),
      Product(<<"L", "e", "d">>, <<>>, <<>>, BadPrice, Set("")),
      Product(<<"T", "u", "b", "o">>, <<"l", "e", "d">>, Electricidad, Price(-4000), Set(Disponible)) }

Queries ==
    { <<>>, <<" ">>, <<"f", "o", "c", "o">>, <<"F", "O", "C", "O", " ", " ", "l", "e", "d">>,
      <<"t", "u", "b", "o">>, <<"z">> }

RECURSIVE Catalogs(_)
Catalogs(n) ==
    IF n = 0 THEN {<<>>}
    ELSE LET shorter == Catalogs(n - 1)
         IN  shorter \cup {Append(c, x) : c \in {d \in shorter : Len(d) = n - 1}, x \in Palette}

\* the server at rest, any message and any catalog
InitScore ==
    /\ CampaignInit
    /\ message \in Queries
    /\ products \in Catalogs(MaxCatalog)
    /\ answer = NoAnswer
    /\ ClientsIdle

\* a call of recommendProductsForQueryText(message, products).  Beside the
\* products returned (recs), the answer keeps the entries of `filtered` they
\* came from: the catalog position p and the score of each.
Recommend ==
    /\ answer = NoAnswer
    /\ answer' = [op |-> "recommend",
                  recs |-> recommendProductsForQueryText(message, products),
                  entries |-> TopEntries(message, products)]
    /\ UNCHANGED <<message, products>>
    /\ UNCHANGED <<ledgerVars, clientVars>>

ScoreNext == Recommend

SpecScore == InitScore /\ [][ScoreNext]_vars

----------------------------------------------------------------------------
(* The assistant: findBestProductMatchForText and                           *)
(* buildAssistantReplyForWhatsApp.  A reply is kept as the parts its        *)
(* template puts together: which text it is, the product it names and its   *)
(* bulleted lines.                                                          *)

MaxShelf == 6    \* longest catalog the assistant reads

\* the result null
Null == [null |-> TRUE]

MatchScoreNameOnly(q, p) ==
    LET name == toLowerCase(p.name)
        words == SplitWords(q)
    IN  3 * Cardinality({i \in 1..Len(words) : Includes(name, words[i])})

\* the score of one product in findBestProductMatchForText:
\* +3 for each word in the name, +1 for each word in `${name} ${desc}`
MatchScore(q, p) ==
    LET name == toLowerCase(p.name)
        hay == toLowerCase(p.name \o Sp \o p.desc)
        words == SplitWords(q)
    IN  3 * Cardinality({i \in 1..Len(words) : Includes(name, words[i])})
          + Cardinality({i \in 1..Len(words) : Includes(hay, words[i])})

RECURSIVE BestFromLast(_, _, _, _, _)
BestFromLast(q, list, i, best, bestScore) ==
    IF i > Len(list) THEN [best |-> best, bestScore |-> bestScore]
    ELSE LET score == MatchScore(q, list[i])
         IN  IF score >= bestScore
             THEN BestFromLast(q, list, i + 1, i, score)
             ELSE BestFromLast(q, list, i + 1, best, bestScore)

\* the loop of findBestProductMatchForText from position i on: the catalog
\* position of `best` (0 for null) and bestScore
RECURSIVE BestFrom(_, _, _, _, _)
BestFrom(q, list, i, best, bestScore) ==
    IF i > Len(list) THEN [best |-> best, bestScore |-> bestScore]
    ELSE LET score == MatchScore(q, list[i])
         IN  IF score > bestScore
             THEN BestFrom(q, list, i + 1, i, score)
             ELSE BestFrom(q, list, i + 1, best, bestScore)

\* the catalog position of the product findBestProductMatchForText returns,
\* 0 when it returns null
BestIndex(text, list) ==
    LET b == BestFrom(toLowerCase(text), list, 1, 0, 0)
    IN  IF b.bestScore = 0 THEN 0 ELSE b.best

\* bestScore at the end of the loop of findBestProductMatchForText
BestScore(text, list) == BestFrom(toLowerCase(text), list, 1, 0, 0).bestScore

\* findBestProductMatchForText(text, products)
findBestProductMatchForText(text, list) ==
    LET best == BestIndex(text, list)
    IN  IF best = 0 THEN Null ELSE list[best]

\* String.prototype.trim
RECURSIVE TrimStart(_)
TrimStart(str) ==
    IF str # <<>> /\ IsSpace(Head(str)) THEN TrimStart(Tail(str)) ELSE str

RECURSIVE TrimEnd(_)
TrimEnd(str) ==
    IF str # <<>> /\ IsSpace(str[Len(str)])
    THEN TrimEnd(SubSeq(str, 1, Len(str) - 1))
    ELSE str

Trim(str) == TrimEnd(TrimStart(str))

\* /tablero/
PanelPatterns == { <<"t", "a", "b", "l", "e", "r", "o">> }

\* /empotrado|superficie|m[oó]dulo|modulo/
QualifierPatterns ==
    { <<"e", "m", "p", "o", "t", "r", "a", "d", "o">>,
      <<"s", "u", "p", "e", "r", "f", "i", "c", "i", "e">>,
      <<"m", "o", "d", "u", "l", "o">>, <<"m", "ó", "d", "u", "l", "o">> }

\* /disponible|tienes|tienen|hay|stock/
AvailabilityPatterns ==
    { <<"d", "i", "s", "p", "o", "n", "i", "b", "l", "e">>,
      <<"t", "i", "e", "n", "e", "s">>, <<"t", "i", "e", "n", "e", "n">>,
      <<"h", "a", "y">>, <<"s", "t", "o", "c", "k">> }

\* Number(price).toLocaleString("es-AR") of an integer: groups of three
\* digits separated by "."
DigitChar(d) == <<"0", "1", "2", "3", "4", "5", "6", "7", "8", "9">>[d + 1]

RECURSIVE Digits(_)
Digits(n) == IF n < 10 THEN <<DigitChar(n)>> ELSE Append(Digits(n \div 10), DigitChar(n % 10))

Pad3(n) == <<DigitChar(n \div 100), DigitChar((n \div 10) % 10), DigitChar(n % 10)>>

RECURSIVE GroupDigits(_)
GroupDigits(n) ==
    IF n < 1000 THEN Digits(n)
    ELSE GroupDigits(n \div 1000) \o <<".">> \o Pad3(n % 1000)

toLocaleString(n) == IF n < 0 THEN <<"-">> \o GroupDigits(-n) ELSE GroupDigits(n)

PriceTextNoFallback(r) ==
    [text |-> "Precio aprox", amount |-> toLocaleString(r.price.v)]

\* priceText of a bulleted line
PriceText(r) ==
    IF r.price.t # "null" /\ r.price.t # "nan"
    THEN [text |-> "Precio aprox", amount |-> toLocaleString(r.price.v)]
    ELSE [text |-> "Precio: solicitar cotización", amount |-> <<>>]

\* parts: category, subcategory and material, those that are not empty
Parts(r) ==
    (IF r.category # <<>> THEN <<r.category>> ELSE <<>>)
      \o (IF r.subcategory # <<>> THEN <<r.subcategory>> ELSE <<>>)
      \o (IF r.material # <<>> THEN <<r.material>> ELSE <<>>)

\* one bulleted line `• *${r.name}*${desc}${priceText}`
Line(r) == [name |-> r.name, parts |-> Parts(r), price |-> PriceText(r)]

RECURSIVE Lines(_)
Lines(recs) == IF recs = <<>> THEN <<>> ELSE <<Line(Head(recs))>> \o Lines(Tail(recs))

\* altQuery = `${prod.category || ""} ${prod.subcategory || ""}`
AltQuery(prod) == prod.category \o Sp \o prod.subcategory

\* recsAlt
RecsAlt(prod, list) == recommendProductsForQueryText(AltQuery(prod), list)

Greeting == 1
PanelQuestion == 2
NoCatalog == 3
Availability == 4
Recommendation == 5

BranchCatalogFirst(msg, list) ==
    LET text == Trim(msg)
        lower == toLowerCase(text)
    IN  IF text = <<>> THEN Greeting
        ELSE IF Len(list) = 0 THEN NoCatalog
        ELSE IF Test(PanelPatterns, lower) /\ ~Test(QualifierPatterns, lower) THEN PanelQuestion
        ELSE IF Test(AvailabilityPatterns, lower) /\ findBestProductMatchForText(text, list) # Null
             THEN Availability
        ELSE Recommendation

\* the rule of buildAssistantReplyForWhatsApp that returns, by the order of
\* its `if`s
Branch(msg, list) ==
    LET text == Trim(msg)
        lower == toLowerCase(text)
    IN  IF text = <<>> THEN Greeting
        ELSE IF Test(PanelPatterns, lower) /\ ~Test(QualifierPatterns, lower) THEN PanelQuestion
        ELSE IF Len(list) = 0 THEN NoCatalog
        ELSE IF Test(AvailabilityPatterns, lower) /\ findBestProductMatchForText(text, list) # Null
             THEN Availability
        ELSE Recommendation

AvailabilityReplyWithList(prod, list) ==
    IF Truthy(prod.available) /\ prod.available.val # Disponible
    THEN [text |-> "agotado", name |-> prod.name, lines |-> Lines(RecsAlt(prod, list))]
    ELSE [text |-> "disponible", name |-> prod.name, lines |-> Lines(RecsAlt(prod, list))]

\* the text returned by the availability rule for the product prod
AvailabilityReply(prod, list) ==
    IF Truthy(prod.available) /\ prod.available.val # Disponible
    THEN [text |-> "agotado", name |-> prod.name, lines |-> Lines(RecsAlt(prod, list))]
    ELSE [text |-> "disponible", name |-> prod.name, lines |-> <<>>]

\* the text returned by the recommendation rule
RecommendationReply(text, list) ==
    LET recs == recommendProductsForQueryText(text, list)
    IN  IF recs = <<>>
        THEN [text |-> "no encontré", name |-> <<>>, lines |-> <<>>]
        ELSE [text |-> "Te sugiero", name |-> <<>>, lines |-> Lines(recs)]

\* buildAssistantReplyForWhatsApp(message, products)
buildAssistantReplyForWhatsApp(msg, list) ==
    LET text == Trim(msg)
        b == Branch(msg, list)
    IN  CASE b = Greeting -> [text |-> "Hola", name |-> <<>>, lines |-> <<>>]
          [] b = PanelQuestion -> [text |-> "tableros", name |-> <<>>, lines |-> <<>>]
          [] b = NoCatalog -> [text |-> "no tengo productos", name |-> <<>>, lines |-> <<>>]
          [] b = Availability ->
                 AvailabilityReply(findBestProductMatchForText(text, list), list)
          [] OTHER -> RecommendationReply(text, list)

(* Inputs *)

Tienes == <<"T", "i", "e", "n", "e", "s">>
Tablero == <<"t", "a", "b", "l", "e", "r", "o">>

Messages ==
    { <<>>, <<" ">>,
      Sp \o Tablero,
      Tablero \o Sp \o <<"e", "m", "p", "o", "t", "r", "a", "d", "o">>,
      Tienes \o Sp \o <<"F", "O", "C", "O">>,
      <<"h", "a", "y">> \o Sp \o <<"l", "e", "d">>,
      <<"s", "t", "o", "c", "k">> \o Sp \o <<"z">>,
      <<"f", "o", "c", "o">>,
      <<"z">> }

Shelf ==
    { [Product(<<"F", "o", "c", "o">>, <<>>, Electricidad, Price(9000), Set("Agotado"))
          EXCEPT !.subcategory = <<"L", "e", "d">>],
      Product(<<"P", "a", "n", "e", "l">>, <<"l", "e", "d">>, Electricidad, NoPrice, Set(Disponible)),
      Product(<<"T", "u", "b", "o">>, <<>>, Plomeria, Price(1500), Absent) }

RECURSIVE Shelves(_)
Shelves(n) ==
    IF n = 0 THEN {<<>>}
    ELSE LET shorter == Shelves(n - 1)
         IN  shorter \cup {Append(c, x) : c \in {d \in shorter : Len(d) = n - 1}, x \in Shelf}

\* the server at rest, a message and the catalog of products.json
InitReply ==
    /\ CampaignInit
    /\ message \in Messages
    /\ products \in Shelves(MaxShelf)
    /\ answer = NoAnswer
    /\ ClientsIdle

\* a call of findBestProductMatchForText(message, products); the answer
\* keeps the product returned, its catalog position and its score
MatchBest ==
    /\ answer = NoAnswer
    /\ answer' = [op |-> "match",
                  best |-> findBestProductMatchForText(message, products),
                  index |-> BestIndex(message, products),
                  score |-> BestScore(message, products)]
    /\ UNCHANGED <<message, products>>
    /\ UNCHANGED <<ledgerVars, clientVars>>

\* a call of buildAssistantReplyForWhatsApp(message, products); the answer
\* keeps the reply and the rule that returned it
Reply ==
    /\ answer = NoAnswer
    /\ answer' = [op |-> "reply",
                  branch |-> Branch(message, products),
                  reply |-> buildAssistantReplyForWhatsApp(message, products)]
    /\ UNCHANGED <<message, products>>
    /\ UNCHANGED <<ledgerVars, clientVars>>

ReplyNext == MatchBest \/ Reply

SpecReply == InitReply /\ [][ReplyNext]_vars

----------------------------------------------------------------------------
(* The clients collection: requireAdmin, GET and POST /api/clients *)

\* bounds: clients.json holds at most MaxClients records, and a record
\* counts at most MaxOrders orders
MaxClients == 2

MaxOrders == 2

\* the base64 alphabet, in the order of its values 0..63
Base64Chars ==
    << "A", "B", "C", "D", "E", "F", "G", "H", "I", "J", "K", "L", "M", "N", "O", "P",
       "Q", "R", "S", "T", "U", "V", "W", "X", "Y", "Z", "a", "b", "c", "d", "e", "f",
       "g", "h", "i", "j", "k", "l", "m", "n", "o", "p", "q", "r", "s", "t", "u", "v",
       "w", "x", "y", "z", "0", "1", "2", "3", "4", "5", "6", "7", "8", "9", "+", "/" >>

\* the printable ASCII characters, in the order of their codes: 32..95 and
\* 97..126 (the grave accent, code 96, is left out)
AsciiChars ==
    << " ", "!", "\"", "#", "$", "%", "&", "'", "(", ")", "*", "+", ",", "-", ".", "/",
       "0", "1", "2", "3", "4", "5", "6", "7", "8", "9", ":", ";", "<", "=", ">", "?",
       "@", "A", "B", "C", "D", "E", "F", "G", "H", "I", "J", "K", "L", "M", "N", "O",
       "P", "Q", "R", "S", "T", "U", "V", "W", "X", "Y", "Z", "[", "\\", "]", "^", "_" >>

AsciiTail ==
    << "a", "b", "c", "d", "e", "f", "g", "h", "i", "j", "k", "l", "m", "n", "o", "p",
       "q", "r", "s", "t", "u", "v", "w", "x", "y", "z", "{", "|", "}", "~" >>

\* the value of a base64 character
Sextet(c) == (CHOOSE i \in 1..Len(Base64Chars) : Base64Chars[i] = c) - 1

\* the characters of a token that carry data: those before the padding
RECURSIVE UpToPadding(_)
UpToPadding(token) ==
    IF token = <<>> \/ Head(token) = "=" THEN <<>>
    ELSE <<Head(token)>> \o UpToPadding(Tail(token))

Sextets(token) ==
    LET data == SelectSeq(UpToPadding(token),
                          LAMBDA c : \E i \in 1..Len(Base64Chars) : Base64Chars[i] = c)
    IN  [i \in 1..Len(data) |-> Sextet(data[i])]

\* byte k (from 0) of the bit stream the sextets v spell
ByteAt(v, k) ==
    LET i == (8 * k) \div 6
        off == (8 * k) % 6
    IN  ((v[i + 1] * 64 + v[i + 2]) \div (2 ^ (4 - off))) % 256

\* a byte read as a character; "?" stands for what is not in the tables
Chr(b) ==
    IF b \in 32..95 THEN AsciiChars[b - 31]
    ELSE IF b \in 97..126 THEN AsciiTail[b - 96]
    ELSE "?"

\* Buffer.from(token, "base64").toString()
Base64Decode(token) ==
    LET v == Sextets(token)
        n == (6 * Len(v)) \div 8
    IN  [k \in 1..n |-> Chr(ByteAt(v, k - 1))]

\* String.prototype.split with a one-character separator
RECURSIVE SplitOn(_, _, _, _)
SplitOn(str, sep, i, part) ==
    IF i > Len(str) THEN <<part>>
    ELSE IF str[i] = sep
         THEN <<part>> \o SplitOn(str, sep, i + 1, <<>>)
         ELSE SplitOn(str, sep, i + 1, Append(part, str[i]))

Split(str, sep) == SplitOn(str, sep, 1, <<>>)

\* process.env.ADMIN_USER and ADMIN_PASS, at their defaults
ADMIN_USER == <<"a", "d", "m", "i", "n">>

ADMIN_PASS == <<"a", "d", "m", "i", "n">>

\* requireAdmin: TRUE when it calls next(), FALSE when it answers 401.
\* header is req.headers.authorization || ""
requireAdmin(header) ==
    LET words == Split(header, " ")
        token == IF Len(words) >= 2 THEN words[2] ELSE <<>>
        decoded == Base64Decode(token)
        up == Split(decoded, ":")
    IN  /\ up[1] = ADMIN_USER
        /\ Len(up) >= 2
        /\ up[2] = ADMIN_PASS

\* a record of clients.json.  An empty string stands for a field that is
\* missing, 0 for a missing id or order count, FALSE for a missing flag;
\* nombre stands for the fields merged like it (apellido, email, direccion,
\* tipo)
Client(id, cedula, celular, nombre, pedidos, interesado) ==
    [id |-> id, cedula |-> cedula, celular |-> celular, nombre |-> nombre,
     pedidos |-> pedidos, interesado |-> interesado]

\* { id: newId }
NewClient(newId) == Client(newId, <<>>, <<>>, "", 0, FALSE)

\* the search loop of the upsert: the position of the first record with
\* the cedula, else of the first record with the celular, else 0
RECURSIVE FindLoop(_, _, _, _, _)
FindLoop(list, ced, cel, i, found) ==
    IF i > Len(list) THEN found
    ELSE IF ced # <<>> /\ list[i].cedula = ced THEN i
    ELSE IF found = 0 /\ cel # <<>> /\ list[i].celular = cel
         THEN FindLoop(list, ced, cel, i + 1, i)
         ELSE FindLoop(list, ced, cel, i + 1, found)

Found(list, client) == FindLoop(list, Trim(client.cedula), Trim(client.celular), 1, 0)

Max(S) == CHOOSE m \in S : \A x \in S : x <= m

\* list.length ? Math.max(...list.map(x => x.id || 0)) + 1 : 1
NewId(list) ==
    IF Len(list) > 0 THEN Max({list[i].id : i \in 1..Len(list)}) + 1 ELSE 1

\* the fields of the client in the request written over those of the record
Merge(found, client) ==
    [found EXCEPT
        !.nombre = IF client.nombre # "" THEN client.nombre ELSE @,
        !.cedula = IF client.cedula # <<>> THEN client.cedula ELSE @,
        !.celular = IF client.celular # <<>> THEN client.celular ELSE @,
        !.pedidos = IF client.pedidos THEN @ + 1 ELSE @,
        !.interesado = IF client.interesado \/ client.pedidos THEN TRUE ELSE @]

\* the position the upsert writes to
UpsertAt(list, client) ==
    IF Found(list, client) = 0 THEN Len(list) + 1 ELSE Found(list, client)

\* the list the upsert writes to clients.json
Upsert(list, client) ==
    LET base == IF Found(list, client) = 0
                THEN Append(list, NewClient(NewId(list)))
                ELSE list
    IN  [base EXCEPT ![UpsertAt(list, client)] = Merge(@, client)]

Basic == <<"B", "a", "s", "i", "c">>

Bearer == <<"B", "e", "a", "r", "e", "r">>

\* base64 of "admin:admin" and of "admin:x"
TokenAdmin == <<"Y", "W", "R", "t", "a", "W", "4", "6", "Y", "W", "R", "t", "a", "W", "4", "=">>

TokenWrong == <<"Y", "W", "R", "t", "a", "W", "4", "6", "e", "A", "=", "=">>

\* the Authorization headers of the requests; <<>> is a request without one
Headers ==
    {<<>>, Basic, Basic \o Sp \o TokenAdmin, Basic \o Sp \o TokenWrong,
     Bearer \o Sp \o TokenAdmin}

\* the client of a request body: pedidos and interesado are TRUE when the
\* field is truthy
ClientBody(cedula, celular, nombre, pedidos, interesado) ==
    [cedula |-> cedula, celular |-> celular, nombre |-> nombre,
     pedidos |-> pedidos, interesado |-> interesado]

ClientBodies ==
    {ClientBody(<<"7">>, <<"1">>, "Ana", FALSE, FALSE),
     ClientBody(<<" ", "7">>, <<"2">>, "", TRUE, FALSE),
     ClientBody(<<>>, <<"1", " ">>, "", FALSE, TRUE),
     ClientBody(<<"8">>, <<"3">>, "Ana", TRUE, FALSE),
     ClientBody(<<"7">>, <<>>, "Ana", FALSE, FALSE)}

\* the arrays of a request body
Rosters ==
    {<<>>,
     <<Client(1, <<"7">>, <<"1">>, "Eva", 0, FALSE)>>,
     <<Client(1, <<"8">>, <<"2">>, "Eva", 1, TRUE), Client(4, <<>>, <<"1">>, "", 0, FALSE)>>}

\* the request bodies: an array, an object, or nothing
Bodies ==
    {[kind |-> "array", list |-> l] : l \in Rosters}
        \cup {[kind |-> "object", client |-> c] : c \in ClientBodies}
        \cup {[kind |-> "none"]}

Status(code, error) == [status |-> code, error |-> error]

\* GET /api/clients, behind requireAdmin
GetClients ==
    \E h \in Headers :
        /\ authorization' = h
        /\ response' = IF requireAdmin(h)
                       THEN [status |-> 200, data |-> clients]
                       ELSE Status(401, "unauthorized")
        /\ UNCHANGED clients
        /\ UNCHANGED <<ledgerVars, scoreVars>>

\* POST /api/clients: with "Basic" in the Authorization header the body
\* replaces the list, otherwise the body is one client to upsert
PostClients ==
    \E h \in Headers, b \in Bodies :
        /\ authorization' = h
        /\ IF Includes(h, Basic)
           THEN IF b.kind # "array"
                THEN /\ response' = Status(400, "array_required")
                     /\ UNCHANGED clients
                ELSE /\ clients' = b.list
                     /\ response' = [status |-> 200, ok |-> TRUE]
           ELSE IF b.kind # "object" \/ b.client.celular = <<>>
                THEN /\ response' = Status(400, "invalid_client")
                     /\ UNCHANGED clients
                ELSE /\ UpsertAt(clients, b.client) <= MaxClients
                     /\ clients' = Upsert(clients, b.client)
                     /\ clients'[UpsertAt(clients, b.client)].pedidos <= MaxOrders
                     /\ response' = [status |-> 200, ok |-> TRUE,
                                     id |-> clients'[UpsertAt(clients, b.client)].id]
        /\ UNCHANGED <<ledgerVars, scoreVars>>

ClientsNext == GetClients \/ PostClients

SpecClients == Init /\ [][ClientsNext]_vars

----------------------------------------------------------------------------
(* Helpers of the properties *)

\* number of resolved sendMail calls of request r
Succeeded(r) == Cardinality({i \in 1..Len(reqs[r].outcome) : reqs[r].outcome[i] = "ok"})

\* the ledger positions of the record request (or public campaign) o created
RecordsOf(o) == {i \in 1..Len(ledger) : ledger[i].owner = o}

Terminal == {"rejected", "aborted", "done"}

Started(r) == [status |-> 200, ok |-> TRUE, id |-> reqs[r].campaignId, state |-> "sending_started"]

\* the timestamp of a tracking event is in the record it was written to
StampPresent(ev) ==
    \E i \in RecordsOf(ev.owner) :
        LET map == IF ev.kind = "open" THEN ledger[i].opens ELSE ledger[i].clicks
        IN  Has(map, ev.email) /\ map[ev.email] = ev.ts

----------------------------------------------------------------------------
(* C1: once the send loop of an accepted bulk campaign has completed, every *)
(* recipient has had exactly one sendMail attempt, in list order, and the   *)
(* persisted `sent` of the campaign's record is the number of recipients    *)
(* whose sendMail did not fail.                                             *)
C1_SentCountsSuccesses ==
    \A r \in Requests :
        reqs[r].pc = "done" =>
            /\ reqs[r].attempts = reqs[r].emails
            /\ \E i \in RecordsOf(r) : ledger[i].sent = Succeeded(r)

(* C2, as claimed: a tracking timestamp persisted while a send loop was     *)
(* running is in the ledger, unchanged, once that loop has done its final   *)
(* sent-count write.                                                        *)
C2_TrackingSurvivesFinalWrite ==
    \A ev \in events : \A r \in ev.loops :
        reqs[r].pc = "done" => StampPresent(ev)

(* C2, amended: a tracking timestamp persisted while a send loop was        *)
(* running is in the ledger, unchanged, once that loop has done its final   *)
(* sent-count write, unless the record that held it has been removed by an  *)
(* SMTP-verification rollback.                                              *)
C2_TrackingSurvivesUnlessRolledBack ==
    \A ev \in events : \A r \in ev.loops :
        (reqs[r].pc = "done" /\ RecordsOf(ev.owner) # {}) => StampPresent(ev)

C2_Witness ==
    \E ev \in events : \E r \in ev.loops :
        /\ reqs[r].pc = "done"
        /\ ev.owner = r
        /\ StampPresent(ev)
        /\ \E i \in RecordsOf(r) : ledger[i].sent > 0

(* C3: when the SMTP probe of a request fails, then in the state in which   *)
(* the 400 smtp_error response is given no record of the ledger has the     *)
(* campaign id of that request, and the request has made and never makes a  *)
(* sendMail attempt.                                                        *)
C3_RollbackOnVerifyFailure ==
    [][\A r \in Requests :
          /\ (reqs[r].pc = "verifying" /\ reqs'[r].pc = "aborted") =>
                /\ Find(ledger', reqs[r].campaignId) = 0
                /\ reqs'[r].resp = <<[status |-> 400, error |-> "smtp_error"]>>
                /\ reqs'[r].attempts = <<>>
          /\ reqs[r].pc = "aborted" => reqs'[r] = reqs[r]]_vars

C3_Witness ==
    \E r \in Requests :
        /\ reqs[r].pc = "aborted"
        /\ reqs[r].resp = <<[status |-> 400, error |-> "smtp_error"]>>
        /\ Find(ledger, reqs[r].campaignId) = 0
        /\ Len(ledger) > 0

(* C4: for one (campaign id, email) at most one recordOpen call writes the  *)
(* ledger: the first call stamps opens[email], later calls write nothing,   *)
(* and every call answers with the same 1x1 image.                          *)
C4_OpenWritesOnce ==
    /\ \A e1, e2 \in events :
          (e1.kind = "open" /\ e2.kind = "open" /\ e1.id = e2.id /\ e1.email = e2.email)
              => e1 = e2
    /\ \A id \in AllIds, v \in Visitors : OpenResponse(ledger, id, v) = Pixel

(* C5: a public campaign has total 0 and sent 0 in every state, and its go  *)
(* link redirects with its id and its pdfUrl and leaves the ledger as it is. *)
C5_PublicCampaign ==
    \A i \in 1..Len(ledger) :
        ledger[i].type = "qr" =>
            /\ ledger[i].total = 0
            /\ ledger[i].sent = 0
            /\ GoResponse(ledger, ledger[i].id) =
                   [status |-> 302, path |-> "/download.html",
                    cid |-> ledger[i].id, pdf |-> ledger[i].pdfUrl]
            /\ GoLedger(ledger, ledger[i].id) = ledger

(* C6: every campaign record of the ledger has sent <= total.               *)
C6_SentAtMostTotal ==
    \A i \in 1..Len(ledger) : ledger[i].sent <= ledger[i].total

(* C7: a request gives exactly one response, and a request that sends has   *)
(* given its sending_started response before its first sendMail attempt,    *)
(* hence before its loop ends and before the final sent-count write.        *)
C7_ResponseBeforeSending ==
    \A r \in Requests :
        /\ Len(reqs[r].resp) <= 1
        /\ reqs[r].pc \in Terminal => Len(reqs[r].resp) = 1
        /\ (reqs[r].attempts # <<>> \/ reqs[r].pc \in {"loop", "await", "done"})
               => reqs[r].resp = <<Started(r)>>

C7_Witness ==
    \E r \in Requests :
        /\ reqs[r].pc = "await"
        /\ Len(reqs[r].attempts) = 1
        /\ reqs[r].resp = <<Started(r)>>

\* no record of the ledger has this id
Unknown(id) == \A i \in 1..Len(ledger) : ledger[i].id # id

(* C14: recordOpen answers every (id, email) with the fixed 1x1 image and   *)
(* status 200, and when no campaign has the id the ledger after the call is *)
(* the ledger before it: nothing written, no record created.                *)
C14_UnknownOpenIsNoOp ==
    \A id \in AllIds, v \in Visitors :
        /\ OpenResponse(ledger, id, v).status = 200
        /\ OpenResponse(ledger, id, v).body = Pixel.body
        /\ Unknown(id) => RecordOpen(ledger, id, v, now) = ledger

C14_Witness ==
    /\ Len(ledger) = 2
    /\ \E id \in AllIds : Unknown(id)
    /\ \E ev \in events : ev.kind = "open"

\* the redirect of the click handler for the record at position i
ClickRedirect(i, v) ==
    [status |-> 302, path |-> "/download.html", email |-> v,
     cid |-> ledger[i].id, pdf |-> ledger[i].pdfUrl]

(* C15: recordClick stamps clicks[email] of a campaign only when the        *)
(* (id, email) pair has no timestamp yet, leaves opens, sent and total of   *)
(* every record as they are, and redirects with the email, the id and the   *)
(* pdfUrl of the campaign; on an unknown id it answers 404 and leaves the   *)
(* ledger as it is.                                                         *)
C15_ClickStampsOnce ==
    /\ \A e1, e2 \in events :
          (e1.kind = "click" /\ e2.kind = "click" /\ e1.id = e2.id /\ e1.email = e2.email)
              => e1 = e2
    /\ \A id \in AllIds, v \in Visitors :
          LET after == RecordClick(ledger, id, v, now)
          IN  /\ Len(after) = Len(ledger)
              /\ \A i \in 1..Len(ledger) :
                    /\ after[i].opens = ledger[i].opens
                    /\ after[i].sent = ledger[i].sent
                    /\ after[i].total = ledger[i].total
              /\ Unknown(id) =>
                    /\ after = ledger
                    /\ ClickResponse(ledger, id, v).status = 404
    /\ \A i \in 1..Len(ledger), v \in Visitors :
          ClickResponse(ledger, ledger[i].id, v) = ClickRedirect(i, v)

\* the sends of the loop of r are over and its sent-count write is to come
FinalWritePending(r) == reqs[r].pc = "loop" /\ reqs[r].idx > Len(reqs[r].emails)

(* C16, as claimed: ledger mutations interleave at the granularity of       *)
(* single read and write calls, so between the end of a loop's sends and    *)
(* its sent-count write a tracking request can be handled: the window in    *)
(* which the write would overwrite the tracking update.                     *)
C16_TrackingRacesFinalWrite ==
    \A r \in Requests :
        FinalWritePending(r) =>
            ENABLED (\E id \in AllIds, v \in Visitors : TrackOpen(id, v) \/ TrackClick(id, v))

(* C16, amended: no interleaving makes the sent-count write of a loop       *)
(* overwrite a tracking update.  Once the sends of a loop are over, the     *)
(* next step of the server is the sent-count write of that loop, and the    *)
(* write leaves the records of the ledger, their order and every open and   *)
(* click timestamp as they were just before it.                             *)
C16_FinalWriteKeepsTracking ==
    [][\A r \in Requests :
          /\ FinalWritePending(r) => reqs'[r].pc = "done"
          /\ (reqs[r].pc = "loop" /\ reqs'[r].pc = "done") =>
                /\ Len(ledger') = Len(ledger)
                /\ \A i \in 1..Len(ledger) :
                      /\ ledger'[i].id = ledger[i].id
                      /\ ledger'[i].opens = ledger[i].opens
                      /\ ledger'[i].clicks = ledger[i].clicks
                /\ events' = events]_vars

C16_Witness ==
    \E r \in Requests : \E i \in RecordsOf(r) : \E ev \in events :
        /\ reqs[r].pc = "done"
        /\ ledger[i].sent = 2
        /\ ev.kind = "click"
        /\ ev.owner = r
        /\ r \in ev.loops
        /\ Has(ledger[i].clicks, ev.email)
        /\ ledger[i].clicks[ev.email] = ev.ts

\* the request has saved its record and its final write is still to come
MidSend(r) == reqs[r].pc \in {"verifying", "respond", "loop", "await"}

(* C17: the record of a valid request is put at the head of the ledger      *)
(* before any network I/O of the request, and from then until the final     *)
(* write of its loop the ledger holds the record with sent = 0.             *)
C17_CreatedVisibleWithSentZero ==
    /\ \A r \in Requests :
          /\ reqs[r].pc \in {"verifying", "respond"} => reqs[r].attempts = <<>>
          /\ MidSend(r) => \E i \in RecordsOf(r) : ledger[i].sent = 0
    /\ \A i, j \in 1..Len(ledger) :
          (i < j /\ ledger[i].owner \in Requests /\ ledger[j].owner \in Requests)
              => ledger[i].owner > ledger[j].owner

(* C18: the sendMail attempts of a request are made for its recipients in   *)
(* input order, and an attempt starts only when the one before it has       *)
(* succeeded or failed: at most one sendMail of the request is in flight.   *)
C18_OneSendAtATime ==
    \A r \in Requests :
        /\ Len(reqs[r].attempts) <= Len(reqs[r].emails)
        /\ reqs[r].attempts = SubSeq(reqs[r].emails, 1, Len(reqs[r].attempts))
        /\ Len(reqs[r].attempts) - Len(reqs[r].outcome) \in {0, 1}
        /\ (Len(reqs[r].attempts) - Len(reqs[r].outcome) = 1) <=> (reqs[r].pc = "await")

C18_Witness ==
    \E r \in Requests :
        /\ reqs[r].pc = "await"
        /\ reqs[r].outcome = <<"fail">>
        /\ reqs[r].attempts = <<Recipient(1), Recipient(2)>>

\* the request has entered `sending`
Sending(r) == reqs[r].pc \in {"respond", "loop", "await"}

(* C19: a campaign goes created -> verifying (only with custom SMTP) ->     *)
(* aborted or sending -> sent: a campaign that is sending or sent has its   *)
(* record in the ledger, only a campaign that was verifying and has made no *)
(* send is aborted and removed, and a campaign that is sent has had its     *)
(* final sent-count write.                                                  *)
C19_Lifecycle ==
    \A r \in Requests :
        /\ reqs[r].pc = "verifying" => reqs[r].smtp
        /\ reqs[r].pc = "aborted" =>
              reqs[r].smtp /\ reqs[r].attempts = <<>> /\ RecordsOf(r) = {}
        /\ (Sending(r) \/ reqs[r].pc = "done") => RecordsOf(r) # {}
        /\ reqs[r].pc = "done" => \E i \in RecordsOf(r) : ledger[i].sent = reqs[r].sentCount

(* C20: a record of the ledger is removed only by the rollback of the       *)
(* request that created it, on the failure of its SMTP probe and before any *)
(* send of that request.                                                    *)
C20_RemovedOnlyByOwnRollback ==
    [][\A o \in Requests \cup {PublicOwner(k) : k \in 1..MaxCampaigns} :
          ((\E i \in 1..Len(ledger) : ledger[i].owner = o)
              /\ ~(\E i \in 1..Len(ledger') : ledger'[i].owner = o))
            => /\ o \in Requests
               /\ reqs[o].pc = "verifying"
               /\ reqs'[o].pc = "aborted"
               /\ reqs[o].attempts = <<>>]_vars

(* C21: no two records of the ledger have the same id, whatever the bulk    *)
(* and public campaigns created and whether or not the clock has advanced   *)
(* between them, and no bulk record has the id of a public record.          *)
C21_IdsUnique ==
    \A i, j \in 1..Len(ledger) : i # j => ledger[i].id # ledger[j].id

\* the records of the ledger that request r did not create, in order
OthersOf(r) == SelectSeq(ledger, LAMBDA c : c.owner # r)

(* C24: the rollback of a request whose SMTP probe failed removes the       *)
(* record of that request and nothing else: the other records, with the     *)
(* timestamps recorded while the probe was in flight, are in the ledger     *)
(* after it, unchanged and in the same order.                               *)
C24_RollbackRemovesOnlyOwn ==
    [][\A r \in Requests :
          (reqs[r].pc = "verifying" /\ reqs'[r].pc = "aborted") => ledger' = OthersOf(r)]_vars

(* C25: a valid request without SMTP host is never verifying nor aborted,   *)
(* its record is never removed from the ledger, and once its loop is over   *)
(* it has had the sending_started response and its record has sent = total. *)
C25_SimulatedAlwaysCompletes ==
    \A r \in Requests :
        (reqs[r].pc \notin {"idle", "rejected"} /\ ~reqs[r].smtp) =>
            /\ reqs[r].pc \in {"respond", "loop", "await", "done"}
            /\ RecordsOf(r) # {}
            /\ reqs[r].pc = "done" =>
                  /\ reqs[r].resp = <<Started(r)>>
                  /\ \E i \in RecordsOf(r) : ledger[i].sent = ledger[i].total

----------------------------------------------------------------------------
(* Properties of the scoring functions, under SpecScore *)

Recommended == answer.op = "recommend"

\* the score of the product at catalog position i on the message
ScoreAt(i) ==
    LET q == toLowerCase(message)
    IN  Score(q, SplitWords(q), products[i])

(* C8: recommend returns at most 4 products, each with a score above 0, in  *)
(* non-increasing order of score, and products of equal score in the order  *)
(* they have in the catalog.                                                *)
C8_RecommendOrdered ==
    Recommended =>
        LET e == answer.entries
        IN  /\ Len(answer.recs) <= 4
            /\ Len(answer.recs) = Len(e)
            /\ \A k \in 1..Len(e) :
                  /\ e[k].p \in 1..Len(products)
                  /\ answer.recs[k] = products[e[k].p]
                  /\ e[k].score > 0
            /\ \A k, l \in 1..Len(e) :
                  k < l =>
                     /\ e[k].score >= e[l].score
                     /\ e[k].score = e[l].score => e[k].p < e[l].p

C8_Witness ==
    /\ Recommended
    /\ Len(products) = 5
    /\ Len(answer.entries) = 4
    /\ ScoreAt(answer.entries[1].p) = ScoreAt(answer.entries[2].p)
    /\ products[answer.entries[1].p] # products[answer.entries[2].p]
    /\ ScoreAt(answer.entries[2].p) > ScoreAt(answer.entries[3].p)
    /\ \E i \in 1..Len(products) : Eligible(products[i]) /\ ScoreAt(i) <= 0

(* C9, as claimed: a product whose `available` is set to a value other than *)
(* "Disponible" is never in the result of recommend.                        *)
C9_UnavailableNeverRecommended ==
    Recommended =>
        \A k \in 1..Len(answer.recs) :
            ~(answer.recs[k].available.has /\ answer.recs[k].available.val # Disponible)

(* C9, amended: a product whose `available` is set to a non-empty value     *)
(* other than "Disponible" is never in the result of recommend.             *)
C9_NonEmptyUnavailableNeverRecommended ==
    Recommended =>
        \A k \in 1..Len(answer.recs) :
            ~(answer.recs[k].available.has /\ answer.recs[k].available.val # ""
                  /\ answer.recs[k].available.val # Disponible)

C9_Witness ==
    /\ Recommended
    /\ Len(answer.recs) > 0
    /\ \E i \in 1..Len(products) :
          /\ products[i].available = Set("Agotado")
          /\ ScoreAt(i) > ScoreAt(answer.entries[1].p)

\* products that pass the availability filter and score above 0 on a query
\* without words: 1 plus the price boost
Candidates ==
    {i \in 1..Len(products) :
        /\ ~(Truthy(products[i].available) /\ products[i].available.val # Disponible)
        /\ 1000 + PriceBoost(products[i]) > 0}

NoWords == SplitWords(toLowerCase(message)) = <<>>

(* C10, as claimed: on the empty query every product of a non-empty catalog *)
(* is a candidate, so the result has min(4, |C|) products.                  *)
C10_EmptyQueryKeepsAll ==
    (Recommended /\ message = <<>> /\ Len(products) > 0) =>
        Len(answer.entries) = Min(4, Len(products))

(* C10, amended: on the empty query (or one of white space only) the result *)
(* is the first min(4, n) of the candidates in non-increasing order of the  *)
(* price boost min(price/1000, 5), catalog order among equals, where the n  *)
(* candidates are the products that pass the availability filter and whose  *)
(* base score 1 plus price boost is above 0; no domain boost applies.       *)
C10_EmptyQueryRanksByPrice ==
    (Recommended /\ NoWords) =>
        /\ Len(answer.entries) = Min(4, Cardinality(Candidates))
        /\ \A k \in 1..Len(answer.entries) :
              /\ answer.entries[k].p \in Candidates
              /\ answer.entries[k].score = 1000 + PriceBoost(products[answer.entries[k].p])
              /\ \A j \in Candidates :
                    \/ \E l \in 1..Len(answer.entries) : answer.entries[l].p = j
                    \/ PriceBoost(products[j]) < PriceBoost(products[answer.entries[k].p])
                    \/ /\ PriceBoost(products[j]) = PriceBoost(products[answer.entries[k].p])
                       /\ j > answer.entries[k].p
        /\ \A k, l \in 1..Len(answer.entries) :
              k < l =>
                 \/ PriceBoost(products[answer.entries[k].p]) > PriceBoost(products[answer.entries[l].p])
                 \/ /\ PriceBoost(products[answer.entries[k].p]) = PriceBoost(products[answer.entries[l].p])
                    /\ answer.entries[k].p < answer.entries[l].p

C10_Witness ==
    /\ Recommended
    /\ message = <<>>
    /\ Len(products) = 5
    /\ Len(answer.entries) = 4
    /\ Cardinality(Candidates) = 4
    /\ \E k \in 1..4 : products[answer.entries[k].p].price = BadPrice
    /\ \E k \in 1..4 : products[answer.entries[k].p].price = Price(9000)

----------------------------------------------------------------------------
(* Properties of the assistant, under SpecReply *)

Matched == answer.op = "match"

Replied == answer.op = "reply"

\* the words of the message, as the functions split them
MessageWords == SplitWords(toLowerCase(Trim(message)))

\* word w occurs in the name or in the description of the product at i
OccursIn(w, i) ==
    \/ Includes(toLowerCase(products[i].name), w)
    \/ Includes(toLowerCase(products[i].desc), w)

SomeTokenOccurs ==
    \E k \in 1..Len(MessageWords) : \E i \in 1..Len(products) : OccursIn(MessageWords[k], i)

(* C11: matchBest returns none when no word of the query occurs, case       *)
(* ignored, as a substring of the name or the description of a product of   *)
(* the catalog, and returns a product of the catalog when some word does.   *)
C11_MatchBestNoneIffNoToken ==
    Matched =>
        /\ (answer.best = Null) <=> ~SomeTokenOccurs
        /\ answer.best # Null =>
              /\ answer.index \in 1..Len(products)
              /\ answer.best = products[answer.index]
              /\ \E k \in 1..Len(MessageWords) : OccursIn(MessageWords[k], answer.index)

C11_Witness ==
    /\ Matched
    /\ answer.best # Null
    /\ \A k \in 1..Len(MessageWords) :
          ~Includes(toLowerCase(answer.best.name), MessageWords[k])
    /\ \E i \in 1..Len(products) :
          \A k \in 1..Len(MessageWords) : ~OccursIn(MessageWords[k], i)
    /\ \E k \in 1..Len(MessageWords) : \A i \in 1..Len(products) : ~OccursIn(MessageWords[k], i)

\* the message has an availability keyword and the best match of the
\* message is a product marked unavailable; the reply comes from rule 4
AsksForUnavailable ==
    /\ Replied
    /\ answer.branch = Availability
    /\ LET prod == findBestProductMatchForText(Trim(message), products)
       IN  prod.available.has /\ prod.available.val \notin {"", Disponible}

\* the best match of the message
Matching == findBestProductMatchForText(Trim(message), products)

InStock(p) == ~p.available.has \/ p.available.val \in {"", Disponible}

\* the price line a product must have
PriceLineOf(p, line) ==
    IF p.price.t = "num"
    THEN line.price.text = "Precio aprox" /\ line.price.amount = toLocaleString(p.price.v)
    ELSE line.price.text = "Precio: solicitar cotización"

AltWords(p) == SplitWords(toLowerCase(p.category \o Sp \o p.subcategory))

\* the product at i is an alternative to p: it is in stock and it has a
\* word of p's category or subcategory in its text, or a price above 0
\* (or p has neither category nor subcategory and the price is above -1000)
AlternativeTo(p, i) ==
    LET words == AltWords(p)
    IN  /\ InStock(products[i])
        /\ \/ \E k \in 1..Len(words) : Includes(Hay(products[i]), words[k])
           \/ products[i].price.t = "num" /\ products[i].price.v > 0
           \/ words = <<>> /\ (products[i].price.t = "num" => products[i].price.v > -1000)

IsEmptyMessage == Trim(message) = <<>>

IsPanelQuestion ==
    /\ Test(PanelPatterns, toLowerCase(Trim(message)))
    /\ ~Test(QualifierPatterns, toLowerCase(Trim(message)))

IsAvailabilityInquiry ==
    Test(AvailabilityPatterns, toLowerCase(Trim(message))) /\ SomeTokenOccurs

(* C13: the reply comes from the first rule that applies, in the order      *)
(* empty message, panel keyword without qualifier, empty catalog,           *)
(* availability inquiry with a match, recommendation; so an empty message   *)
(* gets the greeting whatever the catalog, and a panel message without      *)
(* qualifier gets the question also when the catalog is empty.              *)
C13_CascadeOrder ==
    Replied =>
        /\ answer.branch \in {Greeting, PanelQuestion, NoCatalog, Availability, Recommendation}
        /\ (answer.branch = Greeting) <=> IsEmptyMessage
        /\ (answer.branch = PanelQuestion) <=> (~IsEmptyMessage /\ IsPanelQuestion)
        /\ (answer.branch = NoCatalog) <=>
              (~IsEmptyMessage /\ ~IsPanelQuestion /\ products = <<>>)
        /\ (answer.branch = Availability) <=>
              (~IsEmptyMessage /\ ~IsPanelQuestion /\ products # <<>> /\ IsAvailabilityInquiry)
        /\ answer.branch = Greeting => answer.reply.text = "Hola"
        /\ answer.branch = PanelQuestion => answer.reply.text = "tableros"
        /\ answer.branch = NoCatalog => answer.reply.text = "no tengo productos"
        /\ answer.branch = Availability => answer.reply.text \in {"agotado", "disponible"}
        /\ answer.branch = Recommendation => answer.reply.text \in {"no encontré", "Te sugiero"}

C13_Witness ==
    /\ Replied
    /\ products = <<>>
    /\ IsPanelQuestion
    /\ answer.reply.text = "tableros"

\* 3 for each word of the message found in the name of the product at i
\* and 1 for each word found in its name or in its description
NameDescScore(i) ==
    LET inName == {k \in 1..Len(MessageWords) :
                      Includes(toLowerCase(products[i].name), MessageWords[k])}
        inDesc == {k \in 1..Len(MessageWords) :
                      Includes(toLowerCase(products[i].desc), MessageWords[k])}
    IN  3 * Cardinality(inName) + Cardinality(inName \cup inDesc)

(* C22: matchBest scores a product 3 for each word of the query found in    *)
(* its name plus 1 for each word found in name and description, and returns *)
(* the first product of the catalog with the highest score when that score  *)
(* is not 0, none otherwise; availability plays no part.                    *)
C22_FirstMaxScore ==
    Matched =>
        /\ \A i \in 1..Len(products) : NameDescScore(i) <= answer.score
        /\ answer.score = 0 => answer.best = Null /\ answer.index = 0
        /\ answer.score > 0 =>
              /\ answer.index \in 1..Len(products)
              /\ answer.best = products[answer.index]
              /\ NameDescScore(answer.index) = answer.score
              /\ \A i \in 1..(answer.index - 1) : NameDescScore(i) < answer.score

C22_Witness ==
    /\ Matched
    /\ answer.score = 4
    /\ answer.best.available = Set("Agotado")
    /\ \E i \in 1..Len(products) : i > answer.index /\ NameDescScore(i) = 4
    /\ \E i \in 1..(answer.index - 1) : NameDescScore(i) = 0

\* the message has an availability keyword and no panel keyword without
\* qualifier, and the catalog is not empty
AsksAvailability ==
    /\ Replied
    /\ products # <<>>
    /\ Test(AvailabilityPatterns, toLowerCase(Trim(message)))
    /\ ~IsPanelQuestion

(* C23: for a catalog that is not empty and a message with an availability  *)
(* keyword and no unqualified panel keyword, the reply is the short         *)
(* confirmation that names the product when matchBest finds a product in    *)
(* stock, with no list; when matchBest finds nothing the reply is what the  *)
(* recommendation rule gives for the message: the bulleted list of          *)
(* recommend(message), or the nothing-found text when that is empty.        *)
C23_AvailableOrFallThrough ==
    AsksAvailability =>
        LET prod == Matching
            recs == recommendProductsForQueryText(Trim(message), products)
        IN  /\ (prod # Null /\ InStock(prod)) =>
                  /\ answer.reply.text = "disponible"
                  /\ answer.reply.name = prod.name
                  /\ answer.reply.lines = <<>>
            /\ prod = Null =>
                  /\ answer.reply.name = <<>>
                  /\ Len(answer.reply.lines) = Len(recs)
                  /\ \A k \in 1..Len(recs) :
                        /\ answer.reply.lines[k].name = recs[k].name
                        /\ PriceLineOf(recs[k], answer.reply.lines[k])
                  /\ answer.reply.text = IF recs = <<>> THEN "no encontré" ELSE "Te sugiero"

C23_Witness ==
    /\ AsksAvailability
    /\ Matching = Null
    /\ answer.reply.text = "Te sugiero"
    /\ Len(answer.reply.lines) = 4
    /\ Len(products) = 6

----------------------------------------------------------------------------
(* Properties of the clients collection *)

\* the step leaves every record of clients.json where it was and as it
\* was, except at most one: a record changed in place or a record added
UpsertsOne ==
    \/ clients' = clients
    \/ /\ Len(clients') \in {Len(clients), Len(clients) + 1}
       /\ \E k \in 1..Len(clients') :
              \A i \in 1..Len(clients) : i # k => clients'[i] = clients[i]

\* C26: a POST /api/clients request replaces the whole clients collection
\* only when it carries the correct admin credentials (those requireAdmin
\* accepts); a request without them at most upserts one client record, and
\* never overwrites or removes another client.
C26_OnlyAdminReplacesClients ==
    [][~requireAdmin(authorization') => UpsertsOne]_vars

====
